---- MODULE Spec2Model ----
(***************************************************************************)
(* A model of the collaborative layer of mobx-mica ("Mantle Live"): the    *)
(* LiveBehavior of src/mantle-live-behavior-v2.md, which binds the         *)
(* observable fields of a host component to a replicated document (a       *)
(* LoroDoc), keeps an undo history and talks to a relay over one           *)
(* WebSocket.                                                              *)
(*                                                                         *)
(* Spec       one root LiveBehavior (author "A"), the relay and a remote   *)
(*            author "B" whose updates arrive as {type:'loro'} messages.   *)
(* FairSpec   Spec with the fairness of the network.                       *)
(* SpecMerge  two replicas of the document exchanging operations in any    *)
(*            order, with redelivery.                                      *)
(* SpecColl   a synced collection of child entries: add, remove, move and  *)
(*            the merge of a remote author's field edits.                  *)
(***************************************************************************)
EXTENDS Integers, Sequences, FiniteSets, TLC

\* ---------------------------------------------------------------- bounds

\* Largest value written to a field (values are 0..MaxVal; 0 is the default).
MaxVal == 1
\* Operations the local author may create after the defaults are seeded
\* (writes, undo and redo all create operations).
MaxLocalOps == 3
\* Operations the remote author publishes.
MaxRemoteOps == 1
\* Lamport timestamps the remote author may use beyond the seeded defaults.
MaxRemoteLam == 2
\* Operations each replica of SpecMerge may create.
MaxRepOps == 2
\* The most entries a collection is given (ids are not reused).
MaxEntries == 3
\* The most moves made in a collection.
MaxMoves == 1
\* The most field edits the remote author publishes for entries.
MaxEdits == 1
\* The most undo steps on entry fields held at a time.
MaxEntryWrites == 2
\* The most removals of entries by the remote author.
MaxRemoteRemoves == 1
\* The most invocations of the broadcast by the user.
MaxCasts == 2
\* The most broadcast messages that arrive from the remote peer.
MaxInbound == 1
\* The most runs of onMount over all components of the page.
MaxMounts == 6
\* The most operations a child creates after its attach.
MaxChildOps == 2
\* The most user functions (hooks, callbacks, cleanups) that throw in a run.
MaxThrows == 1
\* The most changes of the observable the watchers and the effect read.
MaxChanges == 1
\* The most runs of onUpdate.
MaxUpdates == 1
\* The most renders of the component after the first.
MaxRenders == 3
\* How often the mount effects of one instance run again after an unmount.
MaxRemounts == 1
\* How often the user calls the dispose functions watch() and effect() returned.
MaxDisposes == 3

\* ---------------------------------------------------------------- schema

Self == "A"
Remote == "B"
Peers == {Self, Remote}

\* Loro breaks a tie between equal Lamport timestamps by the peer id.
PeerRank(p) == IF p = Self THEN 1 ELSE 2

Vals == 0..MaxVal

\* The declared fields, in declaration order: x = sync(0),
\* y = sync(0, {shared: true}), t = sync(0, {transient: true}).
KeySeq == <<"x", "y", "t">>
Keys == {KeySeq[i] : i \in 1..Len(KeySeq)}
NKeys == Len(KeySeq)

schema ==
    [x |-> [default |-> 0, shared |-> FALSE, transient |-> FALSE],
     y |-> [default |-> 0, shared |-> TRUE,  transient |-> FALSE],
     t |-> [default |-> 0, shared |-> FALSE, transient |-> TRUE]]

Roles == {"owner", "editor", "viewer"}

\* The permission table: who may write a synced field.
CanWrite(r, k) ==
    \/ r = "owner"
    \/ r = "editor" /\ schema[k].shared

\* new UndoManager(doc, {excludeOriginPrefixes: ['transient', 'remote']})
excludeOriginPrefixes == {"transient", "remote"}

\* -------------------------------------------------------------- variables

VARIABLES
    phase,       \* "created" | "mounted": the host's lifecycle
    role,        \* the role of the current user
    isReadOnly,  \* LiveBehavior.isReadOnly
    host,        \* the host component's observable fields
    reg,         \* rootMap: one register per field (value and its stamp)
    oplog,       \* the operations the LoroDoc has applied
    undoStack,   \* UndoManager: the undo steps, oldest first
    redoStack,   \* UndoManager: the redo steps, oldest first
    ws,          \* "none" | "connecting" | "open" | "closed"
    isConnected, \* LiveBehavior.isConnected
    sent,        \* what the client has handed to ws.send, in order
    relayLog,    \* the messages the relay has received, in order
    pubB,        \* the operations the remote author has published
    offlineOps,  \* history: local operations created while not connected
    rep,         \* SpecMerge: the document of each replica
    pool,        \* SpecMerge: every operation created so far
    redelivered, \* SpecMerge: history, an applied operation was delivered again
    coll,        \* SpecColl: the synced collection (order, sub-documents, log)
    edits,       \* SpecColl: the field edits the remote author has published
    collHist,    \* SpecColl: history (entries moved, edits imported)
    collUndo,    \* SpecColl: the undo and redo steps on entry fields
    handled,     \* SpecCast: the handler invocations on this peer, in order
    castSent,    \* SpecCast: the broadcast messages handed to ws.send, in order
    castRelay,   \* SpecCast: the broadcast messages the relay has forwarded
    handledB,    \* SpecCast: the handler invocations on the remote peer
    dropped,     \* SpecCast: history, the invocations made without an open socket
    observed,    \* SpecObs: the cached canUndo/canRedo an observer reads
    live,        \* SpecTree: per component, the fields of its LiveBehavior
    made,        \* SpecTree: history, what the root modes have constructed
    bind,        \* SpecBind: a collection's declaration and a child's attach
    life,        \* SpecLife: a component with two behaviors, its hooks and watchers
    box          \* SpecProps: the component's _propsBox and a watcher of a prop

liveVars == <<phase, role, isReadOnly, host, reg, oplog, undoStack, redoStack,
              ws, isConnected, sent, relayLog, pubB, offlineOps>>
mergeVars == <<rep, pool, redelivered>>
collVars == <<coll, edits, collHist, collUndo>>
castVars == <<handled, castSent, castRelay, handledB, dropped>>
obsVars == <<observed>>
treeVars == <<live, made>>
vars == <<liveVars, mergeVars, collVars, castVars, obsVars, treeVars, bind,
          life, box>>

\* ------------------------------------------------------- the document model

\* A register that holds nothing yet (rootMap.get(key) === undefined).
Undefined == -1
NoReg == [val |-> Undefined, lam |-> 0, peer |-> "none"]

MaxOf(S) == IF S = {} THEN 0 ELSE CHOOSE m \in S : \A n \in S : n <= m

\* The next Lamport timestamp of a document: one more than any it has seen.
NextLam(log) == 1 + MaxOf({o.lam : o \in log})

\* The next operation counter of `p` in a document.
NextCtr(log, p) == 1 + Cardinality({o \in log : o.peer = p})

\* Whether operation `o` wins over the current content `r` of its register:
\* the larger Lamport timestamp, then the larger peer.
Newer(o, r) ==
    \/ o.lam > r.lam
    \/ o.lam = r.lam /\ PeerRank(o.peer) > PeerRank(r.peer)

\* A replica that overwrites a register with whatever arrives last, applied or
\* not before.
ApplyOpArrivalOrder(d, o) ==
    [d EXCEPT !.oplog = @ \cup {o},
              !.reg[o.key] = [val |-> o.val, lam |-> o.lam, peer |-> o.peer]]

\* Merging one operation into a document: an operation already applied is
\* skipped; otherwise it is logged and its register keeps the newer write.
ApplyOp(d, o) ==
    IF o \in d.oplog THEN d
    ELSE [d EXCEPT !.oplog = @ \cup {o},
                   !.reg[o.key] = IF Newer(o, @)
                                  THEN [val |-> o.val, lam |-> o.lam, peer |-> o.peer]
                                  ELSE @]

\* The operation peer p creates by setting key k to v in document d.
NewOp(d, p, k, v, origin) ==
    [peer |-> p, ctr |-> NextCtr(d.oplog, p), lam |-> NextLam(d.oplog),
     key |-> k, val |-> v, origin |-> origin]

\* map.set(k, v) by peer p on its own document: one new operation, stamped
\* after everything the document has seen, so it wins there.
DocSet(d, p, k, v, origin) ==
    LET o == NewOp(d, p, k, v, origin)
    IN [d EXCEPT !.oplog = @ \cup {o},
                 !.reg[k] = [val |-> v, lam |-> o.lam, peer |-> p]]

\* The first of a set of operations in (lamport, peer) order.
FirstOp(S) ==
    CHOOSE o \in S : \A q \in S :
        \/ o.lam < q.lam
        \/ o.lam = q.lam /\ PeerRank(o.peer) <= PeerRank(q.peer)

RECURSIVE DocImport(_, _)
\* doc.import(payload): merges every operation of the update.
DocImport(d, payload) ==
    IF payload = {} THEN d
    ELSE LET o == FirstOp(payload)
         IN DocImport(ApplyOp(d, o), payload \ {o})

\* The keys whose register differs between two documents.
ChangedKeys(d1, d2) == {k \in Keys : d1.reg[k] # d2.reg[k]}

\* -------------------------------------------------------- the undo manager

\* A remote (or excluded-origin) change of the keys in K transforms every
\* step on those keys: undoing or redoing it later changes nothing.
MarkRemote(stack, K) ==
    [i \in 1..Len(stack) |->
        IF stack[i].key \in K THEN [stack[i] EXCEPT !.remote = TRUE] ELSE stack[i]]

IsExcluded(origin) == origin \in excludeOriginPrefixes

\* What the UndoManager does with a local commit of origin `origin` that set
\* key k from `old` to `new`.
UndoManagerRecord(c, k, old, new, origin) ==
    IF origin \in {"undo", "redo"} THEN c
    ELSE IF IsExcluded(origin)
    THEN [c EXCEPT !.undoStack = MarkRemote(@, {k}),
                   !.redoStack = MarkRemote(@, {k})]
    ELSE [c EXCEPT !.undoStack = Append(@, [key |-> k, old |-> old, new |-> new,
                                             remote |-> FALSE]),
                   !.redoStack = <<>>]

\* rootMap.set(k, v); doc.commit() with the pending origin: one new local
\* operation, which the undo manager sees.
Commit(c, k, v, origin) ==
    UndoManagerRecord(DocSet(c, Self, k, v, origin), k, c.reg[k].val, v, origin)

RECURSIVE UndoManagerUndo(_)
\* undoManager.undo(): the newest step that still changes something is
\* reversed by a new local operation and moved to the redo stack; steps that
\* change nothing (a remote peer has since written the key) are dropped.
UndoManagerUndo(c) ==
    IF c.undoStack = <<>> THEN c
    ELSE LET it == c.undoStack[Len(c.undoStack)]
             rest == SubSeq(c.undoStack, 1, Len(c.undoStack) - 1)
         IN IF it.remote \/ c.reg[it.key].val = it.old
            THEN UndoManagerUndo([c EXCEPT !.undoStack = rest])
            ELSE LET d == Commit([c EXCEPT !.undoStack = rest], it.key, it.old, "undo")
                 IN [d EXCEPT !.redoStack =
                        Append(@, [key |-> it.key, old |-> it.old,
                                   new |-> c.reg[it.key].val, remote |-> FALSE])]

RECURSIVE UndoManagerRedo(_)
\* undoManager.redo(): the newest undone step is applied again.
UndoManagerRedo(c) ==
    IF c.redoStack = <<>> THEN c
    ELSE LET it == c.redoStack[Len(c.redoStack)]
             rest == SubSeq(c.redoStack, 1, Len(c.redoStack) - 1)
         IN IF it.remote \/ c.reg[it.key].val = it.new
            THEN UndoManagerRedo([c EXCEPT !.redoStack = rest])
            ELSE LET d == Commit([c EXCEPT !.redoStack = rest], it.key, it.new, "redo")
                 IN [d EXCEPT !.undoStack =
                        Append(@, [key |-> it.key, old |-> c.reg[it.key].val,
                                   new |-> it.new, remote |-> FALSE])]

\* ------------------------------------------------- LiveBehavior: the binding

\* The part of the state the binding works on, as one record.
Cur == [host |-> host, reg |-> reg, oplog |-> oplog,
        undoStack |-> undoStack, redoStack |-> redoStack]

Assign(c) ==
    /\ host' = c.host
    /\ reg' = c.reg
    /\ oplog' = c.oplog
    /\ undoStack' = c.undoStack
    /\ redoStack' = c.redoStack

RECURSIVE ReactionEffect(_, _)
RECURSIVE RunReactions(_, _)
RECURSIVE DocSubscriber(_, _)

\* The MobX -> Loro reaction without its equality guard.
ReactionNoGuard(c, k) ==
    LET origin == IF schema[k].transient THEN "transient" ELSE ""
    IN DocSubscriber(Commit(c, k, c.host[k], origin), origin)

\* The MobX -> Loro reaction without setNextCommitOrigin('transient').
ReactionNoTransient(c, k) ==
    IF c.reg[k].val = c.host[k] THEN c
    ELSE DocSubscriber(Commit(c, k, c.host[k], ""), "")

\* setupSync, MobX -> Loro: the effect of the reaction on field k, run when the
\* field's value has changed. It does nothing when the register already holds
\* the value; otherwise it sets the register and commits, with the origin
\* 'transient' for a transient field, and the commit's event reaches the
\* document subscriber.
ReactionEffect(c, k) ==
    IF c.reg[k].val = c.host[k] THEN c
    ELSE LET origin == IF schema[k].transient THEN "transient" ELSE ""
         IN DocSubscriber(Commit(c, k, c.host[k], origin), origin)

\* The reactions of the fields named in the sequence ks, in order.
RunReactions(c, ks) ==
    IF ks = <<>> THEN c
    ELSE RunReactions(ReactionEffect(c, Head(ks)), Tail(ks))

\* setupSync, Loro -> MobX: the document subscriber. An event whose origin is
\* 'local' is ignored; any other writes every field that differs from its
\* register, in one action, after which the reactions of the written fields
\* run.
DocSubscriber(c, origin) ==
    IF origin = "local" THEN c
    ELSE LET written == SelectSeq(KeySeq, LAMBDA k : c.host[k] # c.reg[k].val)
             c1 == [c EXCEPT !.host = [k \in Keys |-> c.reg[k].val]]
         IN RunReactions(c1, written)

\* A host write whose reaction leaves the document alone while disconnected.
HostWriteOnlineOnly(c, k, v) ==
    IF c.host[k] = v THEN c
    ELSE IF isConnected THEN ReactionEffect([c EXCEPT !.host[k] = v], k)
    ELSE [c EXCEPT !.host[k] = v]

\* A write of v to the host's field k after mount: the observable changes and,
\* when the value is a new one, the field's reaction runs.
HostWrite(c, k, v) ==
    IF c.host[k] = v THEN c
    ELSE ReactionEffect([c EXCEPT !.host[k] = v], k)

\* ws.onmessage with {type: 'loro', payload}: doc.import(payload, 'remote').
\* The undo manager transforms its steps by the keys the import changed, and
\* the import's event reaches the document subscriber.
OnMessageLoro(c, payload) ==
    LET d == DocImport(c, payload)
        K == ChangedKeys(c, d)
        c1 == [d EXCEPT !.undoStack = MarkRemote(@, K),
                        !.redoStack = MarkRemote(@, K)]
    IN IF d.oplog = c.oplog THEN c ELSE DocSubscriber(c1, "remote")

\* An undo kept as a history of field values: the last written field is set
\* back through the ordinary write path.
UndoByFieldHistory(c) ==
    IF c.undoStack = <<>> THEN c
    ELSE LET it == c.undoStack[Len(c.undoStack)]
             c1 == [c EXCEPT !.undoStack = SubSeq(@, 1, Len(@) - 1)]
         IN DocSubscriber(Commit(c1, it.key, it.old, "undo"), "undo")

\* An undo that waits for the connection: without one it does nothing.
UndoOnlineOnly(c) ==
    IF ~isConnected THEN c
    ELSE LET d == UndoManagerUndo(c)
         IN IF d.oplog = c.oplog THEN d ELSE DocSubscriber(d, "undo")

\* undo(): this.undoManager.undo(); the event of the reversing commit reaches
\* the document subscriber.
UndoHandler(c) ==
    LET d == UndoManagerUndo(c)
    IN IF d.oplog = c.oplog THEN d ELSE DocSubscriber(d, "undo")

\* A redo that applies the newest undone step again whatever has been merged
\* since.
RedoIgnoringRemote(c) ==
    IF c.redoStack = <<>> THEN c
    ELSE LET it == c.redoStack[Len(c.redoStack)]
             c1 == [c EXCEPT !.redoStack = SubSeq(@, 1, Len(@) - 1)]
         IN DocSubscriber(Commit(c1, it.key, it.new, "redo"), "redo")

\* redo(): this.undoManager.redo().
RedoHandler(c) ==
    LET d == UndoManagerRedo(c)
    IN IF d.oplog = c.oplog THEN d ELSE DocSubscriber(d, "redo")

\* get canUndo / canRedo
canUndo == undoStack # <<>>
canRedo == redoStack # <<>>

\* The local author's operations in a log, and those a user write created.
LocalOps(log) == {o \in log : o.peer = Self}
WriteOps(log) == {o \in log : o.peer = Self /\ o.origin \in {"", "transient"}}

\* The operations carried by a sequence of messages.
OpsOf(msgs) == UNION {msgs[i].ops : i \in 1..Len(msgs)}

\* initializeDefaults: a register that holds nothing is set to the field's
\* default, one operation per field in declaration order.
SeedOp(i) ==
    [peer |-> Self, ctr |-> i, lam |-> i, key |-> KeySeq[i],
     val |-> schema[KeySeq[i]].default, origin |-> "init"]

InitializeDefaults ==
    /\ oplog' = {SeedOp(i) : i \in 1..NKeys}
    /\ reg' = [k \in Keys |->
                 LET i == CHOOSE j \in 1..NKeys : KeySeq[j] = k
                 IN [val |-> schema[k].default, lam |-> i, peer |-> Self]]

\* ------------------------------------------------------------------ actions


\* Whether the local author may still create n operations within the bound.
Room(c) == Cardinality(LocalOps(c.oplog)) <= NKeys + MaxLocalOps

\* The history of operations created while not connected.
TrackOffline(c) ==
    offlineOps' = offlineOps \cup
        (IF isConnected THEN {} ELSE LocalOps(c.oplog) \ LocalOps(oplog))

\* onMount in root mode: initializeDocument (a new document seeded with the
\* defaults, a new UndoManager, openConnection) and setupSync.
OnMount ==
    /\ phase = "created"
    /\ phase' = "mounted"
    /\ InitializeDefaults
    /\ undoStack' = <<>>
    /\ redoStack' = <<>>
    /\ ws' = "connecting"
    /\ UNCHANGED <<box, life, bind, treeVars, obsVars, castVars, mergeVars, collVars, role, isReadOnly, host, isConnected, sent, relayLog, pubB,
                   offlineOps>>

\* The user writes a new value v to field k of the mounted component (MobX
\* ignores the assignment of the value a field already holds).
LocalWrite(k, v) ==
    /\ phase = "mounted"
    /\ v # host[k]
    /\ LET c == HostWrite(Cur, k, v)
       IN /\ Room(c)
          /\ Assign(c)
          /\ TrackOffline(c)
    /\ UNCHANGED <<box, life, bind, treeVars, obsVars, castVars, mergeVars, collVars, phase, role, isReadOnly, ws, isConnected, sent, relayLog, pubB>>

Undo ==
    /\ phase = "mounted"
    /\ LET c == UndoHandler(Cur)
       IN /\ Room(c)
          /\ Assign(c)
          /\ TrackOffline(c)
    /\ UNCHANGED <<box, life, bind, treeVars, obsVars, castVars, mergeVars, collVars, phase, role, isReadOnly, ws, isConnected, sent, relayLog, pubB>>

Redo ==
    /\ phase = "mounted"
    /\ LET c == RedoHandler(Cur)
       IN /\ Room(c)
          /\ Assign(c)
          /\ TrackOffline(c)
    /\ UNCHANGED <<box, life, bind, treeVars, obsVars, castVars, mergeVars, collVars, phase, role, isReadOnly, ws, isConnected, sent, relayLog, pubB>>

\* An export that carries only the operations of the user's own writes.
ExportUpdatesOnly(log) == [type |-> "snapshot", ops |-> WriteOps(log)]

\* doc.export({mode: 'snapshot'}): the bytes of the whole document, every
\* operation it has applied. The message is these bytes, with no envelope.
ExportSnapshot(log) == [type |-> "snapshot", ops |-> log]

\* ws.onopen: isConnected becomes true and the snapshot of the document is
\* sent as it is exported.
OnOpen ==
    /\ ws = "connecting"
    /\ ws' = "open"
    /\ isConnected' = TRUE
    /\ sent' = Append(sent, ExportSnapshot(oplog))
    /\ UNCHANGED <<box, life, bind, treeVars, obsVars, castVars, mergeVars, collVars, phase, role, isReadOnly, host, reg, oplog, undoStack, redoStack,
                   relayLog, pubB, offlineOps>>

\* ws.onclose, after a failed connect or a lost connection.
OnClose ==
    /\ ws \in {"connecting", "open"}
    /\ ws' = "closed"
    /\ isConnected' = FALSE
    /\ UNCHANGED <<box, life, bind, treeVars, obsVars, castVars, mergeVars, collVars, phase, role, isReadOnly, host, reg, oplog, undoStack, redoStack,
                   sent, relayLog, pubB, offlineOps>>

\* ws.onmessage with a document update of the remote author: any of its
\* published operations, in any order, any number of times.
OnMessage(payload) ==
    /\ phase = "mounted"
    /\ ws = "open"
    /\ LET c == OnMessageLoro(Cur, payload)
       IN /\ Assign(c)
          /\ TrackOffline(c)
    /\ UNCHANGED <<box, life, bind, treeVars, obsVars, castVars, mergeVars, collVars, phase, role, isReadOnly, ws, isConnected, sent, relayLog, pubB>>

\* MantleRelay.onMessage: the relay receives the next message of the client
\* (and forwards it to the other connections of the room).
RelayOnMessage ==
    /\ Len(relayLog) < Len(sent)
    /\ relayLog' = Append(relayLog, sent[Len(relayLog) + 1])
    /\ UNCHANGED <<box, life, bind, treeVars, obsVars, castVars, mergeVars, collVars, phase, role, isReadOnly, host, reg, oplog, undoStack, redoStack,
                   ws, isConnected, sent, pubB, offlineOps>>

\* The remote author writes v to field k on its own replica.
RemoteWrite(k, v, lam) ==
    /\ Cardinality(pubB) < MaxRemoteOps
    /\ lam > MaxOf({o.lam : o \in pubB})
    /\ pubB' = pubB \cup {[peer |-> Remote, ctr |-> Cardinality(pubB) + 1, lam |-> lam,
                           key |-> k, val |-> v, origin |-> ""]}
    /\ UNCHANGED <<box, life, bind, treeVars, obsVars, castVars, mergeVars, collVars, phase, role, isReadOnly, host, reg, oplog, undoStack, redoStack,
                   ws, isConnected, sent, relayLog, offlineOps>>

InitMerge ==
    /\ rep = [r \in Peers |-> [reg |-> [k \in Keys |-> NoReg], oplog |-> {}]]
    /\ pool = {}
    /\ redelivered = FALSE

\* sync.components(Class) without initial values: an empty collection.
InitColl ==
    /\ coll = [order |-> <<>>, sub |-> <<>>, log |-> <<>>, nextId |-> 1]
    /\ edits = {}
    /\ collHist = [moved |-> {}, late |-> {}, stale |-> {}, noop |-> FALSE]
    /\ collUndo = [undo |-> <<>>, redo |-> <<>>]

InitCast ==
    /\ handled = <<>>
    /\ castSent = <<>>
    /\ castRelay = <<>>
    /\ handledB = <<>>
    /\ dropped = 0

\* No observer reads canUndo or canRedo yet.
NoObserver == [on |-> FALSE, canUndo |-> FALSE, canRedo |-> FALSE]

InitObs == observed = NoObserver

\* The components of the page: a Board with a collection of HpTrackers, an
\* HpTracker with a collection of its own (Nested), and a second root (Solo).
Comps == {"Board", "HpTracker", "Nested", "Solo"}
NoComp == "none"

\* this.host.getParent(), for the components rendered through ForLive.
Parent ==
    [c \in Comps |-> CASE c = "HpTracker" -> "Board"
                       [] c = "Nested" -> "HpTracker"
                       [] OTHER -> NoComp]

\* The component at the top of c's tree.
RECURSIVE RootOf(_)
RootOf(c) == IF Parent[c] = NoComp THEN c ELSE RootOf(Parent[c])

Descendants(c) == {d \in Comps : d # c /\ (Parent[d] = c \/ (Parent[d] # NoComp /\ Parent[Parent[d]] = c))}

\* A LiveBehavior as constructed: doc and undoManager unassigned, ws null.
\* Documents, managers and sockets are numbered from 1; 0 is none.
FreshLive == [mounted |-> FALSE, doc |-> 0, undoManager |-> 0, ws |-> 0]

InitTree ==
    /\ live = [c \in Comps |-> FreshLive]
    /\ made = [docs |-> 0, managers |-> {}, sockets |-> {}, mounts |-> 0]

\* A parent class is about to declare a collection of a child class; the
\* child's fields hold the defaults its markers were replaced by (onBind).
InitBind ==
    bind = [stage |-> "declared", childLive |-> FALSE, err |-> "none",
            rootMap |-> [k \in {"name", "current"} |-> Undefined],
            hostc |-> [k \in {"name", "current"} |-> 0],
            missing |-> FALSE, ops |-> 0]

\* Before the first render: no instance, no props box. A props object is a
\* record of its identity (id) and its entries.
InitProps ==
    box = [stage |-> "new", mangled |-> FALSE,
           value |-> [id |-> 0, filter |-> 0, page |-> 0],
           prev |-> [id |-> 0, filter |-> 0, page |-> 0],
           last |-> 0, seen |-> <<>>, due |-> <<>>, renders |-> 0]

\* A component class with the behaviors B1 and B2, in the order of its
\* fields, before React renders it.
Owners == {"Comp", "B1", "B2"}

InitLife ==
    life = [stage |-> "new", log |-> <<>>, errors |-> <<>>, escaped |-> <<>>,
            raised |-> FALSE,
            layoutCleanup |-> [w \in Owners |-> FALSE],
            cleanup |-> [w \in Owners |-> FALSE],
            disp |-> [w \in Owners |-> {}],
            pending |-> FALSE, changes |-> 0]

InitLive ==
    /\ phase = "created"
    /\ isReadOnly = FALSE
    /\ host = [k \in Keys |-> schema[k].default]
    /\ reg = [k \in Keys |-> NoReg]
    /\ oplog = {}
    /\ undoStack = <<>>
    /\ redoStack = <<>>
    /\ ws = "none"
    /\ isConnected = FALSE
    /\ sent = <<>>
    /\ relayLog = <<>>
    /\ pubB = {}
    /\ offlineOps = {}

\* The role of the current user is an input: nothing in LiveBehavior sets it.
Init == InitLive /\ role \in Roles /\ InitMerge /\ InitColl /\ InitCast /\ InitObs /\ InitTree /\ InitBind /\ InitLife /\ InitProps

RemoteLams == (NKeys + 1)..(NKeys + MaxRemoteLam)

Next ==
    \/ OnMount
    \/ \E k \in Keys, v \in Vals : LocalWrite(k, v)
    \/ Undo
    \/ Redo
    \/ OnOpen
    \/ OnClose
    \/ \E payload \in SUBSET pubB \ {{}} : OnMessage(payload)
    \/ RelayOnMessage
    \/ \E k \in Keys, v \in Vals, lam \in RemoteLams : RemoteWrite(k, v, lam)

Spec == Init /\ [][Next]_vars

\* The network is fair: a message handed to the open socket reaches the relay,
\* and a connecting socket opens unless the connect fails.
FairSpec == Spec /\ WF_vars(RelayOnMessage) /\ WF_vars(OnOpen)

\* ------------------------------------------------- SpecMerge: two replicas

\* Replica r sets key k to v and commits.
RepLocalSet(r, k, v) ==
    /\ Cardinality({o \in pool : o.peer = r}) < MaxRepOps
    /\ rep[r].reg[k].val # v
    /\ LET o == NewOp(rep[r], r, k, v, "")
           d == DocSet(rep[r], r, k, v, "")
       IN /\ rep' = [rep EXCEPT ![r] = d]
          /\ pool' = pool \cup {o}
    /\ UNCHANGED <<box, life, bind, treeVars, obsVars, castVars, liveVars, collVars, redelivered>>

\* Replica r receives operation o of the other replica in a document update:
\* doc.import. Any operation may arrive at any time, and again.
RepImport(r, o) ==
    /\ o.peer # r
    /\ rep' = [rep EXCEPT ![r] = ApplyOp(rep[r], o)]
    /\ redelivered' = (redelivered \/ o \in rep[r].oplog)
    /\ UNCHANGED <<box, life, bind, treeVars, obsVars, castVars, liveVars, collVars, pool>>

NextMerge ==
    \/ \E r \in Peers, k \in Keys, v \in Vals : RepLocalSet(r, k, v)
    \/ \E r \in Peers, o \in pool : RepImport(r, o)

InitM == InitLive /\ role = "owner" /\ InitMerge /\ InitColl /\ InitCast /\ InitObs /\ InitTree /\ InitBind /\ InitLife /\ InitProps

SpecMerge == InitM /\ [][NextMerge]_vars

\* ------------------------------------------ SpecColl: the synced collection

\* The schema of the child component whose instances the collection holds.
ChildKeys == {"name", "current"}
childSchema == [k \in ChildKeys |-> [default |-> 0]]

\* The partial values add() is called with.
Partials ==
    {<<>>, [name |-> 1]}

\* The ids of the entries, in list order.
Ids(c) == {c.order[i] : i \in 1..Len(c.order)}

Without(s, i) == SubSeq(s, 1, i - 1) \o SubSeq(s, i + 1, Len(s))
InsertAt(s, i, e) == SubSeq(s, 1, i - 1) \o <<e>> \o SubSeq(s, i, Len(s))

\* One operation of the collection's log.
CollOp(kind, id, pos) == [kind |-> kind, id |-> id, pos |-> pos]

\* An add that numbers the new entry by its position in the list.
CollAddByPosition(c, partial) ==
    LET id == Len(c.order) + 1
        seeded == [k \in ChildKeys |->
                      IF k \in DOMAIN partial THEN partial[k]
                      ELSE childSchema[k].default]
    IN [order |-> Append(c.order, id),
        sub |-> [i \in DOMAIN c.sub \cup {id} |->
                    IF i = id THEN seeded ELSE c.sub[i]],
        log |-> Append(c.log, CollOp("insert", id, Len(c.order))),
        nextId |-> c.nextId + 1]

\* add(values): a fresh id, a sub-document seeded with the child's defaults
\* overridden by the given values, appended to the list: one insert operation.
CollAdd(c, partial) ==
    LET id == c.nextId
        seeded == [k \in ChildKeys |->
                      IF k \in DOMAIN partial THEN partial[k]
                      ELSE childSchema[k].default]
    IN [order |-> Append(c.order, id),
        sub |-> [i \in DOMAIN c.sub \cup {id} |->
                    IF i = id THEN seeded ELSE c.sub[i]],
        log |-> Append(c.log, CollOp("insert", id, Len(c.order))),
        nextId |-> id + 1]

\* The entry at 0-based index i is deleted with its sub-document: one delete
\* operation.
CollRemoveAt(c, i) ==
    LET id == c.order[i + 1]
    IN [c EXCEPT !.order = Without(@, i + 1),
                 !.sub = [j \in DOMAIN @ \ {id} |-> @[j]],
                 !.log = Append(@, CollOp("delete", id, i))]

\* remove(id).
CollRemove(c, id) ==
    IF id \notin Ids(c) THEN c
    ELSE CollRemoveAt(c, (CHOOSE i \in 1..Len(c.order) : c.order[i] = id) - 1)

\* A move carried out as a removal and an insertion of a copy: the copy is a
\* new entry with a new id and a new sub-document.
CollMoveAsRemoveInsert(c, from, to) ==
    LET old == c.order[from + 1]
        c1 == CollRemoveAt(c, from)
        id == c1.nextId
    IN [order |-> InsertAt(c1.order, to + 1, id),
        sub |-> [i \in DOMAIN c1.sub \cup {id} |->
                    IF i = id THEN c.sub[old] ELSE c1.sub[i]],
        log |-> Append(c1.log, CollOp("insert", id, to)),
        nextId |-> id + 1]

\* move(fromIndex, toIndex), 0-based, on the movable list: the entry changes
\* its position and nothing else; one move operation.
CollMove(c, from, to) ==
    [c EXCEPT !.order = InsertAt(Without(@, from + 1), to + 1, @[from + 1]),
              !.log = Append(@, CollOp("move", c.order[from + 1], to))]

\* A merge of a field edit that gives a removed entry a sub-document again.
CollImportEditUpsert(c, e) ==
    IF e.id \in Ids(c) THEN [c EXCEPT !.sub[e.id][e.key] = e.val]
    ELSE [c EXCEPT !.order = Append(@, e.id),
                   !.sub = [i \in DOMAIN @ \cup {e.id} |->
                               IF i = e.id
                               THEN [k \in ChildKeys |->
                                        IF k = e.key THEN e.val
                                        ELSE childSchema[k].default]
                               ELSE @[i]]]

\* A field edit of another peer is merged: it is written to the entry's
\* sub-document, or does nothing when the entry has been removed.
CollImportEdit(c, e) ==
    IF e.id \in Ids(c) THEN [c EXCEPT !.sub[e.id][e.key] = e.val] ELSE c

Add(partial) ==
    /\ Len(coll.order) < MaxEntries
    /\ coll.nextId <= MaxEntries
    /\ coll' = CollAdd(coll, partial)
    /\ UNCHANGED <<box, life, bind, treeVars, obsVars, castVars, liveVars, mergeVars, edits, collHist, collUndo>>

Remove(id) ==
    /\ id \in Ids(coll)
    /\ coll' = CollRemove(coll, id)
    /\ UNCHANGED <<box, life, bind, treeVars, obsVars, castVars, liveVars, mergeVars, edits, collHist, collUndo>>

Move(from, to) ==
    /\ from \in 0..(Len(coll.order) - 1)
    /\ to \in 0..(Len(coll.order) - 1)
    /\ Cardinality({i \in 1..Len(coll.log) : coll.log[i].kind = "move"}) < MaxMoves
    /\ Len(coll.log) < 2 * MaxEntries + MaxMoves
    /\ coll' = CollMove(coll, from, to)
    /\ collHist' = [collHist EXCEPT !.moved = @ \cup {coll.order[from + 1]}]
    /\ UNCHANGED <<box, life, bind, treeVars, obsVars, castVars, liveVars, mergeVars, edits, collUndo>>

\* The remote author edits field k of entry id, which it has received; pre
\* records that it has not received a move of the entry.
RemoteEdit(id, k, v) ==
    /\ Cardinality(edits) < MaxEdits
    /\ id \in Ids(coll)
    /\ edits' = edits \cup {[id |-> id, key |-> k, val |-> v,
                             pre |-> id \notin collHist.moved]}
    /\ UNCHANGED <<box, life, bind, treeVars, obsVars, castVars, liveVars, mergeVars, coll, collHist, collUndo>>

\* The collection's owner receives an edit of the remote author, at any time
\* and any number of times.
ImportEdit(e) ==
    /\ coll' = CollImportEdit(coll, e)
    /\ collHist' = [collHist EXCEPT
                       !.late = @ \cup (IF e.id \in collHist.moved THEN {e} ELSE {}),
                       !.stale = @ \cup (IF e.id \in Ids(coll) THEN {} ELSE {e})]
    /\ UNCHANGED <<box, life, bind, treeVars, obsVars, castVars, liveVars, mergeVars, edits, collUndo>>

\* The collection with the undo manager's steps on its entries, as one record.
CurColl == [coll |-> coll, undo |-> collUndo.undo, redo |-> collUndo.redo]

AssignColl(cc) ==
    /\ coll' = cc.coll
    /\ collUndo' = [undo |-> cc.undo, redo |-> cc.redo]

\* The owner writes v to field k of entry id: the child's bound field and its
\* sub-document change, and the undo manager records the step.
CollEntryWrite(cc, id, k, v) ==
    [coll |-> [cc.coll EXCEPT !.sub[id][k] = v],
     undo |-> Append(cc.undo, [id |-> id, key |-> k,
                               old |-> cc.coll.sub[id][k], new |-> v]),
     redo |-> <<>>]

\* An undo that writes the earlier value back whether the entry exists or
\* not, giving a removed entry a sub-document again.
CollUndoUpsert(cc) ==
    IF cc.undo = <<>> THEN cc
    ELSE LET it == cc.undo[Len(cc.undo)]
             fresh == [k \in ChildKeys |->
                          IF k = it.key THEN it.old ELSE childSchema[k].default]
         IN [coll |-> [cc.coll EXCEPT !.sub =
                          [i \in DOMAIN @ \cup {it.id} |->
                              IF i \in DOMAIN @ THEN [@[i] EXCEPT ![it.key] = it.old]
                              ELSE fresh]],
             undo |-> SubSeq(cc.undo, 1, Len(cc.undo) - 1),
             redo |-> Append(cc.redo, it)]

\* undo() on a step of an entry's field: the field gets its earlier value and
\* the step moves to the redo stack; when the entry has been removed the step
\* has no target and nothing is written.
CollUndo(cc) ==
    IF cc.undo = <<>> THEN cc
    ELSE LET it == cc.undo[Len(cc.undo)]
             rest == SubSeq(cc.undo, 1, Len(cc.undo) - 1)
         IN IF it.id \notin Ids(cc.coll)
            THEN [cc EXCEPT !.undo = rest]
            ELSE [coll |-> [cc.coll EXCEPT !.sub[it.id][it.key] = it.old],
                  undo |-> rest,
                  redo |-> Append(cc.redo, it)]

\* redo(), likewise.
CollRedo(cc) ==
    IF cc.redo = <<>> THEN cc
    ELSE LET it == cc.redo[Len(cc.redo)]
             rest == SubSeq(cc.redo, 1, Len(cc.redo) - 1)
         IN IF it.id \notin Ids(cc.coll)
            THEN [cc EXCEPT !.redo = rest]
            ELSE [coll |-> [cc.coll EXCEPT !.sub[it.id][it.key] = it.new],
                  undo |-> Append(cc.undo, it),
                  redo |-> rest]

EntryWrite(id, k, v) ==
    /\ id \in Ids(coll)
    /\ v # coll.sub[id][k]
    /\ Len(collUndo.undo) + Len(collUndo.redo) < MaxEntryWrites
    /\ AssignColl(CollEntryWrite(CurColl, id, k, v))
    /\ UNCHANGED <<box, life, bind, treeVars, obsVars, castVars, liveVars, mergeVars, edits, collHist>>

\* The entry the newest step of a stack targets is no longer in the collection.
TargetGone(stack) ==
    stack # <<>> /\ stack[Len(stack)].id \notin Ids(coll)

EntryUndo ==
    /\ collUndo.undo # <<>>
    /\ AssignColl(CollUndo(CurColl))
    /\ collHist' = [collHist EXCEPT !.noop = @ \/ TargetGone(collUndo.undo)]
    /\ UNCHANGED <<box, life, bind, treeVars, obsVars, castVars, liveVars, mergeVars, edits>>

EntryRedo ==
    /\ collUndo.redo # <<>>
    /\ AssignColl(CollRedo(CurColl))
    /\ collHist' = [collHist EXCEPT !.noop = @ \/ TargetGone(collUndo.redo)]
    /\ UNCHANGED <<box, life, bind, treeVars, obsVars, castVars, liveVars, mergeVars, edits>>

\* The number of entries that left the collection by a merged removal: every
\* id below nextId was added, and a removal by the owner is in the log.
RemoteRemoved(c) ==
    (c.nextId - 1) - Len(c.order)
      - Cardinality({i \in 1..Len(c.log) : c.log[i].kind = "delete"})

\* The remote author's removal of entry id is merged: the entry and its
\* sub-document are gone.
RemoteRemove(id) ==
    /\ id \in Ids(coll)
    /\ RemoteRemoved(coll) < MaxRemoteRemoves
    /\ coll' = [CollRemove(coll, id) EXCEPT !.log = coll.log]
    /\ UNCHANGED <<box, life, bind, treeVars, obsVars, castVars, liveVars, mergeVars, edits, collHist, collUndo>>

NextColl ==
    \/ \E partial \in Partials : Add(partial)
    \/ \E id \in 1..MaxEntries : Remove(id)
    \/ \E from \in 0..(MaxEntries - 1), to \in 0..(MaxEntries - 1) : Move(from, to)
    \/ \E id \in 1..MaxEntries, k \in ChildKeys, v \in Vals : RemoteEdit(id, k, v)
    \/ \E e \in edits : ImportEdit(e)

\* The collection with undoable writes to the entries' fields and removals by
\* both peers.
NextEntry ==
    \/ \E partial \in Partials : Add(partial)
    \/ \E id \in 1..MaxEntries : Remove(id)
    \/ \E id \in 1..MaxEntries, k \in ChildKeys, v \in Vals : EntryWrite(id, k, v)
    \/ EntryUndo
    \/ EntryRedo
    \/ \E id \in 1..MaxEntries : RemoteRemove(id)

InitC == InitLive /\ role = "owner" /\ InitMerge /\ InitColl /\ InitCast /\ InitObs /\ InitTree /\ InitBind /\ InitLife /\ InitProps

SpecColl == InitC /\ [][NextColl]_vars

SpecEntry == InitC /\ [][NextEntry]_vars

\* ------------------------------------------ writes made before the mount

\* The host assigns v to its field k before the LiveBehavior has mounted: in
\* onCreate or onLayoutMount of the component, which run before the
\* behaviors' onMount. The field is a plain observable with the marker's
\* default (onBind); no reaction and no document exist yet.
EarlyWrite(k, v) ==
    /\ phase = "created"
    /\ v # host[k]
    /\ host' = [host EXCEPT ![k] = v]
    /\ UNCHANGED <<box, life, bind, treeVars, obsVars, castVars, mergeVars, collVars, phase, role, isReadOnly, reg, oplog, undoStack, redoStack,
                   ws, isConnected, sent, relayLog, pubB, offlineOps>>

NextEarly ==
    \/ \E k \in Keys, v \in Vals : EarlyWrite(k, v)
    \/ OnMount
    \/ \E k \in Keys, v \in Vals : LocalWrite(k, v)
    \/ Undo
    \/ Redo
    \/ OnOpen
    \/ \E payload \in SUBSET pubB \ {{}} : OnMessage(payload)
    \/ \E k \in Keys, v \in Vals, lam \in RemoteLams : RemoteWrite(k, v, lam)

SpecEarly == InitC /\ [][NextEarly]_vars

\* ------------------------------------------- SpecCast: the broadcast channel

\* The declared channel, ping = broadcast(handler), and a key that no
\* broadcast of the component is declared under.
CastKey == "ping"
CastKeys == {CastKey, "none"}

\* The handlers registered by onBind: broadcastHandlers.set(key, handler).
broadcastHandlers == {CastKey}

\* handler.apply(this.host, args): the handler touches no synced field; its
\* invocation is recorded.
HandlerApply(h, key, args, by) ==
    Append(h, [key |-> key, args |-> args, by |-> by])

\* The state a broadcast works on: the binding's and the channel's.
CurCast ==
    [host |-> host, reg |-> reg, oplog |-> oplog,
     undoStack |-> undoStack, redoStack |-> redoStack,
     handled |-> handled, castSent |-> castSent]

AssignCast(c) ==
    /\ Assign(c)
    /\ handled' = c.handled
    /\ castSent' = c.castSent

CastMessage(key, args) == [type |-> "broadcast", key |-> key, args |-> args]

\* A wrapped broadcast that also records its invocation in the document.
WrapBroadcastPersisted(c, key, args) ==
    LET d == Commit(c, "x", args, "")
    IN [d EXCEPT !.handled = HandlerApply(@, key, args, "local"),
                 !.castSent = IF ws = "open"
                              THEN Append(@, CastMessage(key, args)) ELSE @]

\* wrapBroadcast: the function a broadcast field holds. The handler runs on
\* the host; the message is sent when the socket is open.
WrapBroadcast(c, key, args) ==
    [c EXCEPT !.handled = HandlerApply(@, key, args, "local"),
              !.castSent = IF ws = "open"
                           THEN Append(@, CastMessage(key, args)) ELSE @]

\* An incoming broadcast that is passed to the wrapped function, which sends.
OnMessageCastWrapped(c, key, args) ==
    IF key \in broadcastHandlers
    THEN [c EXCEPT !.handled = HandlerApply(@, key, args, "remote"),
                   !.castSent = Append(@, CastMessage(key, args))]
    ELSE c

\* ws.onmessage with {type: 'broadcast', key, args}: the raw handler of the
\* key, when there is one, is called; nothing is sent.
OnMessageCast(c, key, args) ==
    IF key \in broadcastHandlers
    THEN [c EXCEPT !.handled = HandlerApply(@, key, args, "remote")]
    ELSE c

\* The user invokes the broadcast with args, in any lifecycle phase.
Broadcast(args) ==
    /\ Len(SelectSeq(handled, LAMBDA e : e.by = "local")) < MaxCasts
    /\ AssignCast(WrapBroadcast(CurCast, CastKey, args))
    /\ dropped' = dropped + (IF ws = "open" THEN 0 ELSE 1)
    /\ UNCHANGED <<box, life, bind, treeVars, obsVars, mergeVars, collVars, castRelay, handledB, phase, role, isReadOnly,
                   ws, isConnected, sent, relayLog, pubB, offlineOps>>

\* A broadcast message of the remote peer arrives on the open socket.
OnMessageBroadcast(key, args) ==
    /\ phase = "mounted"
    /\ ws = "open"
    /\ Len(SelectSeq(handled, LAMBDA e : e.by = "remote")) < MaxInbound
    /\ AssignCast(OnMessageCast(CurCast, key, args))
    /\ UNCHANGED <<box, life, bind, treeVars, obsVars, mergeVars, collVars, castRelay, handledB, dropped, phase, role,
                   isReadOnly, ws, isConnected, sent, relayLog, pubB, offlineOps>>

\* MantleRelay.onMessage for a broadcast message: room.broadcast(message,
\* [sender.id]) forwards it to every connection but the sender's.
RelayOnCast ==
    /\ Len(castRelay) < Len(castSent)
    /\ castRelay' = Append(castRelay, castSent[Len(castRelay) + 1])
    /\ UNCHANGED <<box, life, bind, treeVars, obsVars, liveVars, mergeVars, collVars, handled, castSent, handledB, dropped>>

\* The remote peer's ws.onmessage for the next forwarded broadcast.
RemoteOnCast ==
    /\ Len(handledB) < Len(castRelay)
    /\ LET m == castRelay[Len(handledB) + 1]
       IN handledB' = OnMessageCast([handled |-> handledB, castSent |-> <<>>],
                                    m.key, m.args).handled
    /\ UNCHANGED <<box, life, bind, treeVars, obsVars, liveVars, mergeVars, collVars, handled, castSent, castRelay, dropped>>

\* ws.onmessage, up to the choice of its branch: JSON.parse(event.data), then
\* data.type. The bytes of an export are not JSON text, so the parse throws;
\* a parsed message of another type falls through both branches.
OnMessageKind(m) ==
    IF m.type = "snapshot" THEN "SyntaxError"
    ELSE IF m.type = "loro" THEN "import"
    ELSE IF m.type = "broadcast" THEN "dispatch"
    ELSE "ignored"

NextCast ==
    \/ OnMount
    \/ \E v \in Vals : LocalWrite("x", v)
    \/ Undo
    \/ OnOpen
    \/ OnClose
    \/ RelayOnMessage
    \/ \E args \in Vals : Broadcast(args)
    \/ \E key \in CastKeys, args \in Vals : OnMessageBroadcast(key, args)
    \/ RelayOnCast
    \/ RemoteOnCast

SpecCast == InitC /\ [][NextCast]_vars

\* The broadcast channel for a user of any role.
SpecCastRoles == Init /\ [][NextCast]_vars

\* The network is fair, as in FairSpec.
FairCast ==
    /\ SpecCast
    /\ WF_vars(RelayOnMessage) /\ WF_vars(OnOpen)
    /\ WF_vars(RelayOnCast) /\ WF_vars(RemoteOnCast)

\* ------------------------------- SpecObs: canUndo and canRedo as observed

\* canUndo and canRedo are getters, which makeBehaviorObservable annotates as
\* computed. A computed that an observer reads is evaluated when the
\* observation starts and again when an observable it read has changed; the
\* getters read this.undoManager and call its canUndo()/canRedo(), which read
\* no observable, so the value stays as evaluated.
ComputedRead(cache) ==
    IF cache.on THEN cache
    ELSE [on |-> TRUE, canUndo |-> canUndo, canRedo |-> canRedo]

\* An observer (a rendering component, a reaction) starts reading
\* live.canUndo and live.canRedo.
Observe ==
    /\ ~observed.on
    /\ observed' = ComputedRead(observed)
    /\ UNCHANGED <<box, life, bind, treeVars, liveVars, mergeVars, collVars, castVars>>

\* The observer is disposed: the computeds are no longer cached.
Unobserve ==
    /\ observed.on
    /\ observed' = NoObserver
    /\ UNCHANGED <<box, life, bind, treeVars, liveVars, mergeVars, collVars, castVars>>

NextObs ==
    \/ OnMount
    \/ \E k \in Keys, v \in Vals : LocalWrite(k, v)
    \/ Undo
    \/ Redo
    \/ OnOpen
    \/ \E payload \in SUBSET pubB \ {{}} : OnMessage(payload)
    \/ \E k \in Keys, v \in Vals, lam \in RemoteLams : RemoteWrite(k, v, lam)
    \/ Observe
    \/ Unobserve

SpecObs == InitC /\ [][NextObs]_vars

\* ------------------------------------------------------ the document tree

\* findParentLive: the live behavior of the nearest ancestor, every component
\* of the page having one.
FindParentLive(c) == Parent[c]

\* An initializeDocument in which a child builds its own document, manager
\* and connection.
InitializeDocumentAlwaysRoot(t, c) ==
    LET d == t.made.docs + 1
        m == Cardinality(t.made.managers) + 1
        w == Cardinality(t.made.sockets) + 1
    IN [live |-> [t.live EXCEPT ![c].doc = d, ![c].undoManager = m, ![c].ws = w],
        made |-> [t.made EXCEPT !.docs = d,
                                !.managers = @ \cup {[doc |-> d, id |-> m]},
                                !.sockets = @ \cup {[doc |-> d, id |-> w]}]]

\* initializeDocument of component c. Child mode takes the parent's doc and
\* undoManager and opens nothing; when the parent has no document yet,
\* getSubDocFor throws after doc was assigned, and mountBehavior reports the
\* error. Root mode builds a LoroDoc, an UndoManager for it and a WebSocket.
InitializeDocument(t, c) ==
    LET p == FindParentLive(c)
        d == t.made.docs + 1
        m == Cardinality(t.made.managers) + 1
        w == Cardinality(t.made.sockets) + 1
    IN IF p # NoComp
       THEN IF t.live[p].doc = 0
            THEN t
            ELSE [t EXCEPT !.live[c].doc = t.live[p].doc,
                           !.live[c].undoManager = t.live[p].undoManager]
       ELSE [live |-> [t.live EXCEPT ![c].doc = d, ![c].undoManager = m, ![c].ws = w],
             made |-> [t.made EXCEPT !.docs = d,
                                     !.managers = @ \cup {[doc |-> d, id |-> m]},
                                     !.sockets = @ \cup {[doc |-> d, id |-> w]}]]

\* cleanup: the socket, if any, is closed and forgotten.
Cleanup(l) == [l EXCEPT !.ws = 0, !.mounted = FALSE]

\* A component is rendered and its behaviors are mounted: a fresh instance
\* runs onMount. A child is rendered through the collection of its parent,
\* once that parent is mounted.
Mount(c) ==
    /\ ~live[c].mounted
    /\ made.mounts < MaxMounts
    /\ Parent[c] # NoComp => live[Parent[c]].mounted
    /\ LET t == InitializeDocument(
                    [live |-> [live EXCEPT ![c] = [FreshLive EXCEPT !.mounted = TRUE]],
                     made |-> [made EXCEPT !.mounts = @ + 1]], c)
       IN live' = t.live /\ made' = t.made
    /\ UNCHANGED <<box, life, bind, obsVars, castVars, liveVars, mergeVars, collVars>>

\* A component leaves the page with everything rendered under it; each
\* behavior's cleanup runs.
Unmount(c) ==
    /\ live[c].mounted
    /\ live' = [x \in Comps |->
                  IF x = c \/ x \in Descendants(c) THEN Cleanup(live[x]) ELSE live[x]]
    /\ UNCHANGED <<box, life, bind, obsVars, castVars, liveVars, mergeVars, collVars, made>>

NextTree ==
    \/ \E c \in Comps : Mount(c)
    \/ \E c \in Comps : Unmount(c)

SpecTree == Init /\ [][NextTree]_vars

\* ------------------------------------------- declaration and child attach

\* A sync.components that builds the marker whatever the child's class.
syncComponentsUnchecked(hasLive) == "marker"

\* sync.components(ComponentClass): the child's cached schema is read; without
\* a withLive behavior on the child the call throws.
syncComponents(hasLive) == IF hasLive THEN "marker" ELSE "Error"

\* extractLiveSchema on a ComponentsMarker: throws when the child's class has
\* no live schema.
extractLiveSchema(hasLive) == IF hasLive THEN "schema" ELSE "Error"

\* The parent's field initialiser runs sync.components(Child), the child's
\* class having a withLive behavior or not.
Declare(hasLive) ==
    /\ bind.stage = "declared"
    /\ bind' = IF syncComponents(hasLive) = "Error"
               THEN [bind EXCEPT !.stage = "failed", !.err = "Error",
                                 !.childLive = hasLive]
               ELSE [bind EXCEPT !.stage = "marked", !.childLive = hasLive]
    /\ UNCHANGED <<box, life, treeVars, obsVars, castVars, liveVars, mergeVars, collVars>>

\* onBind of the parent's LiveBehavior: extractLiveSchema(fields).
OnBind ==
    /\ bind.stage = "marked"
    /\ bind' = IF extractLiveSchema(bind.childLive) = "Error"
               THEN [bind EXCEPT !.stage = "failed", !.err = "Error"]
               ELSE [bind EXCEPT !.stage = "bound"]
    /\ UNCHANGED <<box, life, treeVars, obsVars, castVars, liveVars, mergeVars, collVars>>

\* onMount of a child in child mode, m being the sub-document getSubDocFor
\* returns (Undefined: the field has no node): initializeDocument takes the
\* parent's document and m as rootMap, without initializeDefaults, and
\* setupSync registers the reactions and the subscriber. Nothing is thrown.
AttachChild(m) ==
    /\ bind.stage = "bound"
    /\ bind' = [bind EXCEPT !.stage = "attached", !.rootMap = m,
                            !.missing = \E k \in DOMAIN m : m[k] = Undefined]
    /\ UNCHANGED <<box, life, treeVars, obsVars, castVars, liveVars, mergeVars, collVars>>

\* The document subscriber of the attached child runs for an event that is
\* not local: every field that differs from rootMap.get(key) is assigned it;
\* the reactions of the assigned fields find the map equal and return.
ChildDocEvent ==
    /\ bind.stage = "attached"
    /\ bind' = [bind EXCEPT !.hostc = bind.rootMap]
    /\ UNCHANGED <<box, life, treeVars, obsVars, castVars, liveVars, mergeVars, collVars>>

\* The user writes v to field k of the attached child: the reaction sets the
\* node and commits unless the node holds v.
ChildWrite(k, v) ==
    /\ bind.stage = "attached"
    /\ v # bind.hostc[k]
    /\ bind.ops < MaxChildOps
    /\ bind' = IF bind.rootMap[k] = v THEN [bind EXCEPT !.hostc[k] = v]
               ELSE [bind EXCEPT !.hostc[k] = v, !.rootMap[k] = v, !.ops = @ + 1]
    /\ UNCHANGED <<box, life, treeVars, obsVars, castVars, liveVars, mergeVars, collVars>>

NextBind ==
    \/ \E hasLive \in BOOLEAN : Declare(hasLive)
    \/ OnBind
    \/ \E m \in [ChildKeys -> Vals \cup {Undefined}] : AttachChild(m)
    \/ ChildDocEvent
    \/ \E k \in ChildKeys, v \in Vals : ChildWrite(k, v)

SpecBind == Init /\ [][NextBind]_vars

\* ------------------------------------------- component lifecycle (mantle)

\* What a call of a user function does: it returns nothing, returns a
\* cleanup function, or throws.
Outcomes == {"ok", "cleanup", "throw"}

Ev(who, what, out) == [who |-> who, what |-> what, out |-> out]

\* A reportError that passes the context of a component whatever the origin.
reportErrorAsComponent(l, ph, who, isB) ==
    [l EXCEPT !.errors = Append(@, [phase |-> ph, name |-> who,
                                    isBehavior |-> FALSE])]

\* reportError(error, {phase, name, isBehavior}): the handler (onError or
\* console.error) receives the error once.
reportError(l, ph, who, isB) ==
    [l EXCEPT !.errors = Append(@, [phase |-> ph, name |-> who,
                                    isBehavior |-> isB])]

\* A hook called without try/catch: its exception leaves the lifecycle step.
RunHookUnguarded(l, who, ph, out, isB) ==
    IF l.raised THEN l
    ELSE LET l1 == [l EXCEPT !.log = Append(@, Ev(who, ph, out))]
         IN IF out = "throw"
            THEN [l1 EXCEPT !.raised = TRUE, !.escaped = Append(@, Ev(who, ph, out))]
            ELSE l1

\* try { result = hook() } catch (e) { reportError(e, {phase, name,
\* isBehavior}) }: the shape of every hook call, watch callback and effect
\* run. The result of onLayoutMount and onMount is kept as the cleanup, that
\* of an effect run as the effect's pending cleanup. l.raised: an exception
\* is propagating out of the step, the rest of which does not run.
RunHook(l, who, ph, out, isB) ==
    IF l.raised THEN l
    ELSE LET l1 == [l EXCEPT !.log = Append(@, Ev(who, ph, out))]
         IN IF out = "throw" THEN reportError(l1, ph, who, isB)
            ELSE IF ph = "onLayoutMount"
            THEN [l1 EXCEPT !.layoutCleanup[who] = (out = "cleanup")]
            ELSE IF ph = "onMount"
            THEN [l1 EXCEPT !.cleanup[who] = (out = "cleanup")]
            ELSE IF ph = "effect"
            THEN [l1 EXCEPT !.pending = (out = "cleanup")]
            ELSE l1

\* cleanup?.(): the kept cleanup, if any, is called outside any try; the
\* cleanups of owner `bad` throw.
RunCleanup(l, who, kind, bad) ==
    IF l.raised \/ ~l[kind][who] THEN l
    ELSE LET e == Ev(who, kind, IF who = bad THEN "throw" ELSE "ok")
         IN [l EXCEPT !.log = Append(@, e),
                      !.raised = (who = bad),
                      !.escaped = IF who = bad THEN Append(@, e) ELSE @]

\* _disposeWatchers: every autorun/reaction disposer of the list is called
\* and the list is emptied; the pending cleanup of an effect is not touched.
disposeWatchers(l, who) ==
    IF l.raised THEN l
    ELSE [l EXCEPT !.log = Append(@, Ev(who, "dispose", "ok")), !.disp[who] = {}]

\* An unmountBehavior that calls onUnmount before the cleanups.
unmountBehaviorHookFirst(l, b, bad, out) ==
    disposeWatchers(
        RunCleanup(RunCleanup(RunHook(l, b, "onUnmount", out, TRUE),
                              b, "layoutCleanup", bad), b, "cleanup", bad), b)

\* unmountBehavior: layoutCleanup?.(), cleanup?.(), try onUnmount,
\* _disposeWatchers.
unmountBehavior(l, b, bad, out) ==
    disposeWatchers(
        RunHook(RunCleanup(RunCleanup(l, b, "layoutCleanup", bad), b, "cleanup", bad),
                b, "onUnmount", out, TRUE), b)

\* The step is over: React has taken what propagated.
Finish(l, stage) ==
    /\ Cardinality({i \in DOMAIN l.log : l.log[i].out = "throw"}) <= MaxThrows
    /\ life' = [l EXCEPT !.raised = FALSE, !.stage = stage]
    /\ UNCHANGED <<box, bind, treeVars, obsVars, castVars, liveVars, mergeVars, collVars>>

\* First render: new ComponentClass() runs the field initializers, each of
\* which constructs a behavior, whose constructor calls its onCreate with the
\* factory's arguments; then the component's onCreate is called. onCreate
\* registers a watcher and an effect on the component and a watcher on B1,
\* and the effect runs at once.
Create(out) ==
    /\ life.stage = "new"
    /\ Finish(RunHook([life EXCEPT
                        !.log = @ \o <<Ev("B1", "onCreate", "ok"),
                                       Ev("B2", "onCreate", "ok"),
                                       Ev("Comp", "onCreate", "ok")>>,
                        !.disp = [w \in Owners |->
                                    CASE w = "Comp" -> {"watch", "effect"}
                                      [] w = "B1" -> {"watch"}
                                      [] OTHER -> {}]],
                      "Comp", "effect", out, FALSE), "created")

\* A layout effect that calls the component's hook before the behaviors'.
LayoutMountEffectHostFirst(outs) ==
    /\ life.stage = "created"
    /\ Finish(RunHook(RunHook(RunHook(life,
                 "Comp", "onLayoutMount", outs["Comp"], FALSE),
                 "B1", "onLayoutMount", outs["B1"], TRUE),
                 "B2", "onLayoutMount", outs["B2"], TRUE), "layoutMounted")

\* useLayoutEffect: _layoutMountBehaviors, then the component's onLayoutMount.
LayoutMountEffect(outs) ==
    /\ life.stage = "created"
    /\ Finish(RunHook([RunHook(RunHook(life,
                 "B1", "onLayoutMount", outs["B1"], TRUE),
                 "B2", "onLayoutMount", outs["B2"], TRUE)
                   EXCEPT !.layoutCleanup["Comp"] = FALSE],
                 "Comp", "onLayoutMount", outs["Comp"], FALSE), "layoutMounted")

\* The layout effect runs again for the same instance after an unmount (the
\* effects are re-run with the refs kept, as React's StrictMode does for
\* every component in development): the same function as at the first mount.
LayoutRemountEffect(outs) ==
    /\ life.stage = "unmounted"
    /\ Cardinality({i \in DOMAIN life.log : life.log[i].who = "Comp"
                        /\ life.log[i].what = "onLayoutMount"}) <= MaxRemounts
    /\ Finish(RunHook([RunHook(RunHook(life,
                 "B1", "onLayoutMount", outs["B1"], TRUE),
                 "B2", "onLayoutMount", outs["B2"], TRUE)
                   EXCEPT !.layoutCleanup["Comp"] = FALSE],
                 "Comp", "onLayoutMount", outs["Comp"], FALSE), "layoutMounted")

\* useEffect: _mountBehaviors, then the component's onMount. The component's
\* cleanup is a variable of the effect's closure, undefined at each run; a
\* behavior's is a field of its entry in _behaviors, which outlives the run.
MountEffect(outs) ==
    /\ life.stage = "layoutMounted"
    /\ Finish(RunHook([RunHook(RunHook(life,
                 "B1", "onMount", outs["B1"], TRUE),
                 "B2", "onMount", outs["B2"], TRUE)
                   EXCEPT !.cleanup["Comp"] = FALSE],
                 "Comp", "onMount", outs["Comp"], FALSE), "mounted")

\* useEffect without dependencies: onUpdate after a render.
Update(out) ==
    /\ life.stage = "mounted"
    /\ life.changes = 0
    /\ Cardinality({i \in DOMAIN life.log : life.log[i].what = "onUpdate"}) < MaxUpdates
    /\ Finish(RunHook(life, "Comp", "onUpdate", out, FALSE), "mounted")

\* The observable the watchers and the effect read changes, after the mount
\* or after the unmount: every reaction not yet disposed runs. The effect first calls the cleanup of its last run.
Change(wouts, eout) ==
    /\ life.stage \in {"mounted", "unmounted"}
    /\ life.changes < MaxChanges
    /\ LET l0 == [life EXCEPT !.changes = @ + 1]
           l1 == IF "watch" \in l0.disp["Comp"]
                 THEN RunHook(l0, "Comp", "watch", wouts["Comp"], FALSE) ELSE l0
           l2 == IF "effect" \in l1.disp["Comp"]
                 THEN RunHook(IF l1.pending
                              THEN [l1 EXCEPT !.pending = FALSE,
                                      !.log = Append(@, Ev("Comp", "effectCleanup", "ok"))]
                              ELSE l1,
                              "Comp", "effect", eout, FALSE)
                 ELSE l1
           l3 == IF "watch" \in l2.disp["B1"]
                 THEN RunHook(l2, "B1", "watch", wouts["B1"], TRUE) ELSE l2
       IN Finish(l3, life.stage)

\* Unmount, layout phase: the cleanup of the component's onLayoutMount.
LayoutUnmount(bad) ==
    /\ life.stage = "mounted"
    /\ Finish(RunCleanup(life, "Comp", "layoutCleanup", bad), "unmounting")

\* Unmount, the cleanup of the mount effect: cleanup?.(), try onUnmount,
\* _disposeWatchers, _unmountBehaviors.
UnmountEffect(bad, outs) ==
    /\ life.stage = "unmounting"
    /\ Finish(unmountBehavior(unmountBehavior(
                 disposeWatchers(
                     RunHook(RunCleanup(life, "Comp", "cleanup", bad),
                             "Comp", "onUnmount", outs["Comp"], FALSE), "Comp"),
                 "B1", bad, outs["B1"]), "B2", bad, outs["B2"]), "unmounted")

NextLife ==
    \/ \E out \in Outcomes : Create(out)
    \/ \E outs \in [Owners -> Outcomes] : LayoutMountEffect(outs)
    \/ \E outs \in [Owners -> Outcomes] : MountEffect(outs)
    \/ \E out \in {"ok", "throw"} : Update(out)
    \/ \E wouts \in [{"Comp", "B1"} -> {"ok", "throw"}], eout \in Outcomes :
          Change(wouts, eout)
    \/ \E bad \in {"Comp", "none"} : LayoutUnmount(bad)
    \/ \E bad \in Owners \cup {"none"}, outs \in [Owners -> {"ok", "throw"}] :
          UnmountEffect(bad, outs)

SpecLife == InitC /\ [][NextLife]_vars

\* The same instance mounted, unmounted and mounted again. B1's and the
\* component's mount hooks take every outcome; nothing else throws.
NextRemount ==
    \/ \E out \in {"ok", "cleanup"} : Create(out)
    \/ \E o \in Outcomes, oc \in Outcomes :
          LayoutMountEffect([w \in Owners |->
              IF w = "B1" THEN o ELSE IF w = "Comp" THEN oc ELSE "ok"])
    \/ \E o \in Outcomes, oc \in Outcomes :
          MountEffect([w \in Owners |->
              IF w = "B1" THEN o ELSE IF w = "Comp" THEN oc ELSE "ok"])
    \/ \E eout \in {"ok", "cleanup"} :
          Change([w \in {"Comp", "B1"} |-> "ok"], eout)
    \/ LayoutUnmount("none")
    \/ UnmountEffect("none", [w \in Owners |-> "ok"])
    \/ \E o \in Outcomes, oc \in Outcomes :
          LayoutRemountEffect([w \in Owners |->
              IF w = "B1" THEN o ELSE IF w = "Comp" THEN oc ELSE "ok"])

SpecRemount == InitC /\ [][NextRemount]_vars

\* The user calls the function that this.watch() or this.effect() of onCreate
\* returned. watch: dispose() and the disposer leaves _watchDisposers.
\* effect: cleanup?.() first, on the variable that holds the cleanup of the
\* last run and that this function does not clear; then dispose() and the
\* removal from the list.
Dispose(which) ==
    /\ life.stage # "new"
    /\ Cardinality({i \in DOMAIN life.log : life.log[i].what = "userDispose"}) < MaxDisposes
    /\ LET l0 == [life EXCEPT !.log = Append(@, Ev("Comp", "userDispose", which))]
           l1 == IF which = "effect" /\ l0.pending
                 THEN [l0 EXCEPT !.log = Append(@, Ev("Comp", "effectCleanup", "ok"))]
                 ELSE l0
       IN Finish([l1 EXCEPT !.disp["Comp"] = @ \ {which}], life.stage)

\* One mount and unmount with the user disposing watchers early; no hook
\* throws.
NextDispose ==
    \/ \E out \in {"ok", "cleanup"} : Create(out)
    \/ LayoutMountEffect([w \in Owners |-> "ok"])
    \/ MountEffect([w \in Owners |-> "ok"])
    \/ \E eout \in {"ok", "cleanup"} :
          Change([w \in {"Comp", "B1"} |-> "ok"], eout)
    \/ \E which \in {"watch", "effect"} : Dispose(which)
    \/ LayoutUnmount("none")
    \/ UnmountEffect("none", [w \in Owners |-> "ok"])

SpecDispose == InitC /\ [][NextDispose]_vars

\* ------------------------------------------------------ props reactivity

\* shallowEqual(a, b): the same object, or the same entries.
shallowEqual(a, b) ==
    a = b \/ (a.filter = b.filter /\ a.page = b.page)

\* First render with props p: observable.box(p, {deep: false}) is created and
\* onCreate registers this.watch(() => this.props.filter, callback), whose
\* reaction evaluates the expression once. mangled: whether the MobX build in
\* use has renamed the box's private field value_ (its minified production
\* builds do), in which case _syncProps writes a property the box never reads.
FirstRender(p, m) ==
    /\ box.stage = "new"
    /\ box' = [box EXCEPT !.stage = "rendered", !.mangled = m, !.value = p,
                          !.prev = p, !.last = p.filter]
    /\ UNCHANGED <<life, bind, treeVars, obsVars, castVars, liveVars, mergeVars, collVars>>

\* A later render with props p, then its layout effect. _syncProps(p) assigns
\* the box's value_ without notification. The effect, when p is not
\* shallow-equal to the previous props, calls _propsBox.set(p): the box
\* notifies only when p is not the value it holds; the watcher's reaction
\* then evaluates its expression again and calls the callback when the
\* result differs from the last one. due: history, the values of filter the
\* renders changed it to.
Render(p) ==
    /\ box.stage = "rendered"
    /\ box.renders < MaxRenders
    /\ p = box.prev \/ (p.id = box.renders + 1 /\ ~shallowEqual(p, box.prev))
    /\ LET synced == IF box.mangled THEN box.value ELSE p
           notified == ~shallowEqual(box.prev, p) /\ synced # p
           fires == notified /\ p.filter # box.last
       IN box' = [box EXCEPT
                    !.renders = @ + 1,
                    !.value = IF ~shallowEqual(box.prev, p) THEN p ELSE synced,
                    !.prev = IF ~shallowEqual(box.prev, p) THEN p ELSE @,
                    !.last = IF notified THEN p.filter ELSE @,
                    !.seen = IF fires THEN Append(@, p.filter) ELSE @,
                    !.due = IF p.filter # box.prev.filter
                            THEN Append(@, p.filter) ELSE @]
    /\ UNCHANGED <<life, bind, treeVars, obsVars, castVars, liveVars, mergeVars, collVars>>

NextProps ==
    \/ \E f \in Vals, g \in Vals, m \in BOOLEAN :
          FirstRender([id |-> 0, filter |-> f, page |-> g], m)
    \/ \E i \in 0..MaxRenders, f \in Vals, g \in Vals :
          Render([id |-> i, filter |-> f, page |-> g])

SpecProps == InitC /\ [][NextProps]_vars

\* --------------------------------------------------------------- properties

\* C1. Convergence: two replicas that have applied the same set of
\* operations, in whatever orders, hold the same document state.
C1_Convergence ==
    \A r1 \in Peers, r2 \in Peers :
        rep[r1].oplog = rep[r2].oplog => rep[r1].reg = rep[r2].reg

\* Both replicas hold the same operations, among them two concurrent writes
\* of different values to one key, which each replica applied in its own
\* order (its own write first).
C1_Witness ==
    /\ rep[Self].oplog = rep[Remote].oplog
    /\ \E a \in rep[Self].oplog, b \in rep[Self].oplog :
          /\ a.peer = Self /\ b.peer = Remote
          /\ a.lam = 1 /\ b.lam = 1
          /\ a.key = b.key /\ a.val # b.val

\* C2. Reconnect replay: the operations created while the connection was
\* down reach the relay; until they have, the client is (again) connecting.
C2_ReconnectReplay ==
    []<>(ws = "connecting" \/ offlineOps \subseteq OpsOf(relayLog))

C4_PermissionEnforcement ==
    \A o \in WriteOps(oplog) : CanWrite(role, o.key)

\* C5. No feedback loop: a remote import adds exactly the imported operations
\* to the log, leaves every field equal to its merged register, creates no
\* local operation and sends nothing.
C5_NoFeedbackLoop ==
    [][\A payload \in SUBSET pubB \ {{}} : OnMessage(payload) =>
        /\ oplog' = oplog \cup payload
        /\ LocalOps(oplog') = LocalOps(oplog)
        /\ \A k \in Keys : host'[k] = reg'[k].val
        /\ sent' = sent
      ]_vars

\* A remote operation has been imported, won its register and was written
\* into the bound field.
C5_Witness ==
    \E o \in oplog :
        /\ o.peer = Remote
        /\ o.val # schema[o.key].default
        /\ reg[o.key] = [val |-> o.val, lam |-> o.lam, peer |-> Remote]
        /\ host[o.key] = o.val

\* C6. Local-write visibility: right after a local write of v to field k, in
\* the same step and with nothing sent or received, the field reads v and its
\* register holds v as the local author's write, connected or not.
C6_LocalWriteVisibility ==
    [][\A k \in Keys, v \in Vals : LocalWrite(k, v) =>
        /\ host'[k] = v
        /\ reg'[k].val = v
        /\ reg'[k].peer = Self
        /\ sent' = sent /\ relayLog' = relayLog
      ]_vars

\* A write made after the connection had opened and closed again (it is not
\* in the snapshot sent on open) is in the field and in its register.
C6_Witness ==
    /\ ws = "closed"
    /\ sent # <<>>
    /\ \E o \in WriteOps(oplog) \ OpsOf(sent) :
          /\ reg[o.key] = [val |-> o.val, lam |-> o.lam, peer |-> Self]
          /\ host[o.key] = o.val

\* C7. Idempotence: delivering to a replica an operation it has already
\* applied leaves its document as it was.
C7_Idempotence ==
    [][\A r \in Peers, o \in pool :
          (RepImport(r, o) /\ o \in rep[r].oplog) => rep'[r] = rep[r]
      ]_vars

\* An applied operation was delivered again to a replica that holds a newer
\* write of the same key.
C7_Witness ==
    /\ redelivered
    /\ \E r \in Peers : \E a \in rep[r].oplog, b \in rep[r].oplog :
          a.key = b.key /\ a.lam < b.lam /\ a.peer # r

\* C8. Eventual propagation: while the connection stays open, every local
\* operation reaches the relay.
C8_EventualPropagation ==
    []<>(~isConnected \/ LocalOps(oplog) \subseteq OpsOf(relayLog))

\* C9. Non-undoable writes: a write to a transient field commits with the
\* excluded origin and leaves the undo and redo stacks (so canUndo) as they
\* were; no undo or redo changes a transient field or its register; a remote
\* import adds no step to either stack.
C9_NonUndoable ==
    [][/\ \A k \in Keys, v \in Vals : (LocalWrite(k, v) /\ schema[k].transient) =>
              /\ undoStack' = undoStack /\ redoStack' = redoStack
              /\ \E o \in oplog' \ oplog : o.key = k /\ o.origin = "transient"
       /\ (Undo \/ Redo) =>
              \A k \in Keys : schema[k].transient =>
                  reg'[k] = reg[k] /\ host'[k] = host[k]
       /\ \A payload \in SUBSET pubB \ {{}} : OnMessage(payload) =>
              /\ Len(undoStack') = Len(undoStack)
              /\ Len(redoStack') = Len(redoStack)
      ]_vars

\* A transient field was written, an undoable write made after it was undone,
\* and the transient field still holds the written value.
C9_Witness ==
    \E t \in oplog, u \in oplog :
        /\ t.origin = "transient" /\ t.val # schema[t.key].default
        /\ u.origin = "undo" /\ u.lam > t.lam
        /\ reg[t.key] = [val |-> t.val, lam |-> t.lam, peer |-> Self]
        /\ host[t.key] = t.val

\* C10. Collection identity under move: move(from, to) appends exactly one
\* move operation to the log (no delete, no insert), keeps the set of entry
\* ids and every sub-document as they were, puts the moved entry at index to
\* and keeps the others in their relative order; an edit another peer made
\* to a field of a moved entry is in that entry's sub-document once merged.
C10_MoveIdentity ==
    [][/\ \A from \in 0..(Len(coll.order) - 1), to \in 0..(Len(coll.order) - 1) :
            Move(from, to) =>
              /\ coll'.log = Append(coll.log, CollOp("move", coll.order[from + 1], to))
              /\ Len(coll'.order) = Len(coll.order)
              /\ Ids(coll') = Ids(coll)
              /\ coll'.sub = coll.sub
              /\ coll'.order[to + 1] = coll.order[from + 1]
              /\ Without(coll'.order, to + 1) = Without(coll.order, from + 1)
       /\ \A e \in edits :
            (ImportEdit(e) /\ e.id \in collHist.moved /\ e.id \in Ids(coll)) =>
              /\ coll'.sub[e.id][e.key] = e.val
              /\ coll'.order = coll.order
      ]_vars

\* Entry 1 of three was moved from index 0 to index 2, and an edit the remote
\* author made before it had the move was merged afterwards and is in the
\* entry's sub-document.
C10_Witness ==
    /\ coll.order = <<2, 3, 1>>
    /\ coll.log[Len(coll.log)] = CollOp("move", 1, 2)
    /\ \E e \in collHist.late :
          /\ e.pre /\ e.id = 1
          /\ e.val # childSchema[e.key].default
          /\ coll.sub[1][e.key] = e.val

\* C11. Broadcast non-persistence: invoking a broadcast, in any lifecycle
\* phase and with the socket open or not, runs the handler once on the host
\* and leaves the fields, the registers, the operation log and the undo and
\* redo stacks as they were.
C11_BroadcastNonPersistence ==
    [][\A args \in Vals : Broadcast(args) =>
        /\ handled' = Append(handled, [key |-> CastKey, args |-> args, by |-> "local"])
        /\ host' = host /\ reg' = reg /\ oplog' = oplog
        /\ undoStack' = undoStack /\ redoStack' = redoStack
      ]_vars

\* The broadcast was invoked with the socket closed (no peer is reachable)
\* while the document held a write and an undo step: the handler ran, nothing
\* was sent.
C11_Witness ==
    /\ ws = "closed"
    /\ dropped >= 1
    /\ castSent = <<>>
    /\ \E i \in 1..Len(handled) : handled[i].by = "local"
    /\ undoStack # <<>>
    /\ \E o \in oplog : o.origin = "" /\ o.val = 1

\* C12. Broadcasts are not buffered: a broadcast message is handed to the
\* socket only by an invocation made while the socket is open, never later;
\* the document operations made while not connected do reach the relay after
\* the connection is back.
C12_BroadcastsNotBuffered ==
    /\ [][castSent' # castSent =>
            (ws = "open" /\ \E args \in Vals : Broadcast(args))]_vars
    /\ []<>(ws = "connecting" \/ offlineOps \subseteq OpsOf(relayLog))

\* C13. No broadcast echo: an incoming broadcast calls the handler of its key
\* once with its args (none when the key has no handler) and sends nothing;
\* the remote peer handles each forwarded message once, so never more often
\* than the broadcast was invoked here.
C13_NoBroadcastEcho ==
    /\ [][\A key \in CastKeys, args \in Vals : OnMessageBroadcast(key, args) =>
            /\ castSent' = castSent
            /\ handled' = IF key \in broadcastHandlers
                          THEN Append(handled, [key |-> key, args |-> args, by |-> "remote"])
                          ELSE handled
         ]_vars
    /\ [](/\ Len(handledB) <= Len(castSent)
          /\ Len(castSent) + dropped
                = Len(SelectSeq(handled, LAMBDA e : e.by = "local"))
          /\ \A i \in 1..Len(handledB) :
                /\ handledB[i].key = castSent[i].key
                /\ handledB[i].args = castSent[i].args)

\* A broadcast of the remote peer was handled here, and a broadcast invoked
\* here was sent, forwarded and handled once by the remote peer.
C13_Witness ==
    /\ \E i \in 1..Len(handled) : handled[i].by = "remote"
    /\ Len(castSent) = 1
    /\ Len(handledB) = 1

C15_UndoCompensation ==
    /\ [][Undo =>
            /\ Len(undoStack') <= Len(undoStack)
            /\ oplog' # oplog =>
                  /\ Len(undoStack') < Len(undoStack)
                  /\ Len(redoStack') = Len(redoStack) + 1
                  /\ \E o \in oplog' \ oplog :
                        /\ oplog' = oplog \cup {o}
                        /\ o.origin = "undo" /\ o.peer = Self
                        /\ o.key = redoStack'[Len(redoStack')].key
                        /\ o.val = redoStack'[Len(redoStack')].old
         ]_vars
    /\ []<>(~isConnected
            \/ {o \in oplog : o.origin = "undo"} \subseteq OpsOf(relayLog))

\* C16. canUndo and canRedo as an observer reads them: canUndo is true
\* exactly when the undo manager holds a step of the local author that has
\* not been reversed, canRedo exactly when it holds an undone step, in every
\* reachable state.
C16_CanUndoCanRedo ==
    observed.on =>
        /\ observed.canUndo = (undoStack # <<>>)
        /\ observed.canRedo = (redoStack # <<>>)

C18_AddEntry ==
    [][\A partial \in Partials : Add(partial) =>
        LET n == Len(coll.order)
            new == coll'.order[n + 1]
        IN /\ Len(coll'.order) = n + 1
           /\ SubSeq(coll'.order, 1, n) = coll.order
           /\ coll'.log = Append(coll.log, CollOp("insert", new, n))
           /\ new \notin Ids(coll)
           /\ \A i \in 1..Len(coll.log) : coll.log[i].id # new
           /\ \A k \in ChildKeys :
                 coll'.sub[new][k] = IF k \in DOMAIN partial THEN partial[k]
                                     ELSE childSchema[k].default
           /\ \A id \in Ids(coll) : coll'.sub[id] = coll.sub[id]
           /\ edits' = edits
      ]_vars

\* After a removal, an entry was added with name given and current left to
\* its default: it is last, and its id is that of no earlier operation.
C18_Witness ==
    LET n == Len(coll.log)
    IN /\ n >= 3
       /\ coll.log[n].kind = "insert"
       /\ \E i \in 1..(n - 1) : coll.log[i].kind = "delete"
       /\ coll.order # <<>>
       /\ coll.order[Len(coll.order)] = coll.log[n].id
       /\ coll.sub[coll.log[n].id] = [name |-> 1, current |-> 0]
       /\ Len(coll.order) >= 2

\* C19. remove(id) appends one delete operation and leaves the entry out of
\* the list and without a sub-document, the other entries as they were; an
\* edit of another peer that targets a removed entry and is merged afterwards
\* leaves the collection as it is.
C19_RemoveEntry ==
    [][/\ \A id \in Ids(coll) : Remove(id) =>
            /\ id \notin Ids(coll')
            /\ id \notin DOMAIN coll'.sub
            /\ Ids(coll') = Ids(coll) \ {id}
            /\ \A j \in Ids(coll') : coll'.sub[j] = coll.sub[j]
            /\ Len(coll'.log) = Len(coll.log) + 1
            /\ coll'.log[Len(coll'.log)].kind = "delete"
            /\ coll'.log[Len(coll'.log)].id = id
       /\ \A e \in edits : (ImportEdit(e) /\ e.id \notin Ids(coll)) => coll' = coll
      ]_vars

\* An edit of the remote author was merged after the owner had removed its
\* entry: the entry is still absent.
C19_Witness ==
    \E e \in collHist.stale :
        /\ e.id \notin Ids(coll)
        /\ e.id \notin DOMAIN coll.sub
        /\ \E i \in 1..Len(coll.log) :
              coll.log[i].kind = "delete" /\ coll.log[i].id = e.id
        /\ coll.order # <<>>

C21_OfflineOperation ==
    /\ [][/\ OnClose => ~isConnected'
          /\ (~isConnected /\ isConnected') => OnOpen
          /\ ~isConnected =>
               /\ role' = role /\ isReadOnly' = isReadOnly
               /\ \A k \in Keys, v \in Vals :
                     (CanWrite(role, k) /\ LocalWrite(k, v)) =>
                         host'[k] = v /\ reg'[k].val = v
         ]_vars
    /\ []((phase = "mounted" /\ ~isConnected) =>
            /\ undoStack # <<>> =>
                  LET it == undoStack[Len(undoStack)]
                      c == UndoHandler(Cur)
                  IN (~it.remote /\ reg[it.key].val # it.old) =>
                        /\ c.host[it.key] = it.old /\ c.reg[it.key].val = it.old
                        /\ Len(c.undoStack) = Len(undoStack) - 1
                        /\ Len(c.redoStack) = Len(redoStack) + 1
            /\ redoStack # <<>> =>
                  LET it == redoStack[Len(redoStack)]
                      c == RedoHandler(Cur)
                  IN (~it.remote /\ reg[it.key].val # it.new) =>
                        /\ c.host[it.key] = it.new /\ c.reg[it.key].val = it.new
                        /\ Len(c.redoStack) = Len(redoStack) - 1
                        /\ Len(c.undoStack) = Len(undoStack) + 1)

\* After the connection was lost, an editor has written the shared field,
\* undone the write and redone it: all three operations were made offline.
C21_Witness ==
    /\ ws = "closed" /\ ~isConnected /\ sent # <<>>
    /\ role = "editor"
    /\ \E w, u, r \in offlineOps :
          /\ w.key = "y" /\ u.key = "y" /\ r.key = "y"
          /\ w.origin = "" /\ u.origin = "undo" /\ r.origin = "redo"
          /\ w.lam < u.lam /\ u.lam < r.lam
    /\ host["y"] = reg["y"].val
    /\ undoStack # <<>>

\* C22. A viewer's broadcasts are receive-only: no broadcast message leaves a
\* peer whose role is viewer (its handlers still run for incoming messages;
\* owner and editor send and receive).
C22_ViewerReceiveOnly ==
    role = "viewer" => castSent = <<>>

C24_SchemaMismatch ==
    ~(bind.stage = "attached" /\ bind.missing)

\* C25. The cleanup an effect run returned is called before the effect's next
\* run, and the cleanup of the last run has been called once the component
\* is unmounted.
C25_EffectCleanup ==
    /\ \A i, j \in DOMAIN life.log :
          (/\ i < j
           /\ life.log[i].what = "effect" /\ life.log[i].out = "cleanup"
           /\ life.log[j].what = "effect") =>
              \E k \in (i + 1)..(j - 1) : life.log[k].what = "effectCleanup"
    /\ life.stage = "unmounted" => ~life.pending

\* C26. After the unmount the watcher lists of the component and of its
\* behaviors are empty: no watch callback and no effect is left to run.
C26_DisposedOnUnmount ==
    life.stage = "unmounted" => \A w \in Owners : life.disp[w] = {}

\* C28. Behavior errors are isolated: once the layout effect has run, the
\* onLayoutMount of each behavior and of the component has been called once,
\* and once the mount effect has run, so has each onMount, whichever of them
\* threw.
C28_BehaviorIsolation ==
    LET Calls(w, what) == {i \in DOMAIN life.log :
                              life.log[i].who = w /\ life.log[i].what = what}
    IN /\ life.stage \notin {"new", "created"} =>
             \A w \in Owners : Cardinality(Calls(w, "onLayoutMount")) = 1
       /\ life.stage \in {"mounted", "unmounting", "unmounted"} =>
             \A w \in Owners : Cardinality(Calls(w, "onMount")) = 1

\* The onMount of B1 threw; those of B2 and of the component were called
\* after it.
C28_Witness ==
    \E i, j, k \in DOMAIN life.log :
        /\ i < j /\ j < k
        /\ life.log[i] = Ev("B1", "onMount", "throw")
        /\ life.log[j].who = "B2" /\ life.log[j].what = "onMount"
        /\ life.log[k].who = "Comp" /\ life.log[k].what = "onMount"

\* C29. The exceptions thrown by onLayoutMount, onMount, onUpdate, onUnmount
\* and watch callbacks are, in order, exactly the errors the handler has
\* received for these phases, each with the phase, the class name and the
\* isBehavior flag of its origin, and none of them left its lifecycle step.
C29_ErrorsReported ==
    LET Phases == {"onLayoutMount", "onMount", "onUpdate", "onUnmount", "watch"}
        thrown == SelectSeq(life.log, LAMBDA e : e.out = "throw" /\ e.what \in Phases)
        reported == SelectSeq(life.errors, LAMBDA e : e.phase \in Phases)
    IN /\ Len(reported) = Len(thrown)
       /\ \A i \in DOMAIN thrown :
             reported[i] = [phase |-> thrown[i].what, name |-> thrown[i].who,
                            isBehavior |-> thrown[i].who # "Comp"]
       /\ \A i \in DOMAIN life.escaped : life.escaped[i].what \notin Phases

\* The watch callback of behavior B1 threw after the mount and was reported.
C29_Witness ==
    /\ life.errors = <<[phase |-> "watch", name |-> "B1", isBehavior |-> TRUE]>>
    /\ life.escaped = <<>>
    /\ life.stage = "mounted"

\* C30. Unmount ordering: the component's onUnmount is called after the
\* cleanup of its onMount, a behavior's onUnmount after that behavior's
\* layout and mount cleanups, and an owner's watchers are disposed after its
\* onUnmount.
C30_UnmountOrdering ==
    \A i \in DOMAIN life.log :
        /\ life.log[i].what = "onUnmount" =>
              \A j \in DOMAIN life.log :
                  (/\ life.log[j].who = life.log[i].who
                   /\ \/ life.log[j].what = "cleanup"
                      \/ life.log[j].what = "layoutCleanup") => j < i
        /\ life.log[i].what = "dispose" =>
              \E j \in 1..(i - 1) :
                  life.log[j].who = life.log[i].who /\ life.log[j].what = "onUnmount"

\* The component and B1 had both cleanups; all were called, then the
\* onUnmount hooks, and the watchers are disposed.
C30_Witness ==
    /\ life.stage = "unmounted"
    /\ \A w \in {"Comp", "B1"} : life.layoutCleanup[w] /\ life.cleanup[w]
    /\ \A w \in Owners : \E i \in DOMAIN life.log : life.log[i] = Ev(w, "dispose", "ok")
    /\ \E i \in DOMAIN life.log : life.log[i] = Ev("B1", "cleanup", "ok")
    /\ \E i \in DOMAIN life.log : life.log[i] = Ev("Comp", "layoutCleanup", "ok")

\* C27. Props are reactive: the values the watcher of props.filter has been
\* called with are, in order, the values the renders changed filter to; a
\* render with the same props, or one that changes only another prop, calls
\* it with nothing.
C27_PropsReactive ==
    box.seen = box.due

C32_WireMessageKinds ==
    /\ \A i \in DOMAIN sent : OnMessageKind(sent[i]) \in {"import", "dispatch"}
    /\ \A i \in DOMAIN castSent : OnMessageKind(castSent[i]) \in {"import", "dispatch"}

\* C33. Defaults on first attach: the mount of a root sets every declared
\* field's register, absent until then, to the field's default, and after
\* it every declared field of the host holds the value of its register.
C33_DefaultsOnAttach ==
    [][(phase = "created" /\ phase' = "mounted") =>
          \A k \in Keys :
              /\ reg[k] = NoReg
              /\ reg'[k].val = schema[k].default
              /\ host'[k] = reg'[k].val]_vars

\* C35. Binding consistency: in every state after the mount (no event is in
\* progress between two steps) every synchronized field of the host holds
\* the value of its register, whatever writes (before or after the mount),
\* imports, undos and redos have happened.
C35_BindingConsistency ==
    phase = "mounted" => \A k \in Keys : host[k] = reg[k].val

\* C36. Rejected write: a write of the user to a field the role may not
\* write leaves the field with the value it had before the write, which is
\* also the value of its register.
C36_RejectedWriteUnchanged ==
    [][\A k \in Keys, v \in Vals :
          (~CanWrite(role, k) /\ LocalWrite(k, v)) =>
              (host'[k] = host[k] /\ host'[k] = reg'[k].val)]_vars

C37_UnmountCompletes ==
    life.stage = "unmounted" =>
        /\ life.disp["Comp"] = {}
        /\ \A b \in {"B1", "B2"} :
              /\ life.disp[b] = {}
              /\ \E i \in DOMAIN life.log :
                    life.log[i].who = b /\ life.log[i].what = "onUnmount"

\* C38. Watchers of onCreate stay active: whenever the observable changes
\* while the component is mounted, at its first mount or at a later one, the
\* callback of the watcher registered in onCreate is called and the effect
\* registered in onCreate runs again.
C38_WatchersActiveWhenMounted ==
    [][(life.stage = "mounted" /\ life'.changes = life.changes + 1) =>
          \A what \in {"watch", "effect"} :
              \E i \in (Len(life.log) + 1)..Len(life'.log) :
                  life'.log[i].who = "Comp" /\ life'.log[i].what = what]_vars

\* C39. Behavior cleanups: every call of a cleanup of a behavior is the call
\* of the function its latest onMount (onLayoutMount) returned, and the first
\* call of that function: no cleanup of an earlier mount is called again at
\* a later unmount.
C39_NoStaleCleanup ==
    \A b \in {"B1", "B2"}, kind \in {"cleanup", "layoutCleanup"} :
        LET hook == IF kind = "cleanup" THEN "onMount" ELSE "onLayoutMount"
            Mine == {i \in DOMAIN life.log :
                       life.log[i].who = b /\ life.log[i].what \in {kind, hook}}
        IN \A i \in Mine :
              life.log[i].what = kind =>
                  LET j == MaxOf({n \in Mine : n < i})
                  IN j > 0 /\ life.log[j].what = hook /\ life.log[j].out = "cleanup"

\* C40. Effect cleanups and early disposal: every call of an effect's
\* cleanup is the first call of the function the effect's latest run
\* returned, however often the dispose function is called and whether or not
\* an unmount follows; and a call of the dispose function of the watcher or
\* of the effect removes that one from the instance and leaves every other
\* watcher registered.
C40_CleanupOnceDisposeOne ==
    /\ [](LET Mine == {i \in DOMAIN life.log :
                         life.log[i].who = "Comp"
                         /\ life.log[i].what \in {"effect", "effectCleanup"}}
          IN \A i \in Mine :
                life.log[i].what = "effectCleanup" =>
                    LET j == MaxOf({n \in Mine : n < i})
                    IN j > 0 /\ life.log[j].what = "effect"
                             /\ life.log[j].out = "cleanup")
    /\ [][\A which \in {"watch", "effect"} :
            Dispose(which) =>
                life'.disp = [life.disp EXCEPT !["Comp"] = @ \ {which}]]_vars

====
